---- MODULE Spec2Model ----
(***************************************************************************)
(* VolumeArchiveLibarchive (unpacker/cpp/volume_archive_libarchive.cc):    *)
(* random-access reads over a forward-only libarchive codec.               *)
(*                                                                         *)
(* One public call of the class is one action.  The C++ methods and the    *)
(* libarchive callbacks are operators on a record s:                       *)
(*   s.v   the fields of the VolumeArchiveLibarchive object                *)
(*   s.c   the libarchive codec instance archive_ points to                *)
(*   s.rd  the VolumeReader (ByteSource)                                   *)
(*   s.g   what the call in progress did (its return value and a log)      *)
(* A decompressed byte is the pair <<entry index, position in entry>>, so  *)
(* bytes of different entries or offsets are never equal.                  *)
(***************************************************************************)
EXTENDS Integers, Sequences, FiniteSets, TLC

\* ------------------------------------------------------------- constants
\* volume_archive_constants, scaled down; libarchive status codes.
kArchiveReadDataError == -1
ARCHIVE_OK == 0
ARCHIVE_EOF == 1
ARCHIVE_FATAL == -30
kHeaderChunkSize == 1
kMinimumDataChunkSize == 2
kMaximumDataChunkSize == 3
kDummyBufferSize == 2
kDecompressBufferSize == 2
kVolumeReaderError == "VolumeReaderError"

\* ---------------------------------------------------------------- bounds
MaxLen == 3        \* ReadData lengths are 1..MaxLen
MaxOffset == 3     \* ReadData offsets are 0..MaxOffset
MaxNth == 2        \* a fault hits the 1st..MaxNth-th header or data pull of a call
MaxAfterFail == 1  \* calls the owner still makes once a call has failed

Min(a, b) == IF a < b THEN a ELSE b
Max(a, b) == IF a > b THEN a ELSE b

\* ---------------------------------------------------------------- inputs
\* The archives: sequences of entries.  The first has unique pathnames and an
\* entry of two windows; the second repeats a pathname.
Archives ==
    { << [path |-> "a.txt", size |-> 4], [path |-> "b.txt", size |-> 1] >>,
      << [path |-> "a.txt", size |-> 1], [path |-> "a.txt", size |-> 1] >> }

UniquePaths(ar) ==
    \A i, j \in 1..Len(ar) : ar[i].path = ar[j].path => i = j

\* What the environment does to one public call: which codec call fails and
\* how (site "none": nothing fails), how many bytes the codec hands out per
\* pull, and whether the HeaderCache holds the offset a header pull asks for.
\* A fault that needs a cache hit (the skip after it falls short) comes with
\* one, a fault of the VolumeReader's Read with a miss.
Env(site, kind, nth, chunk, hit) ==
    [site |-> site, kind |-> kind, nth |-> nth, chunk |-> chunk, hit |-> hit]

\* No request to the codec is for more than the larger buffer.
Chunks == 1..Max(kDummyBufferSize, kDecompressBufferSize)

NoFault == { Env("none", "none", 1, c, FALSE) : c \in Chunks }

InitFaults ==
    { Env("new", "null", 1, 1, FALSE),
      Env("support", "codec", 1, 1, FALSE),
      Env("open", "seek_fatal", 1, 1, FALSE),
      Env("open", "read_fatal", 1, 1, FALSE),
      Env("open", "skip_mismatch", 1, 1, TRUE),
      Env("open", "codec", 1, 1, FALSE) }

HeaderFaults ==
    { Env("hdr", "read_fatal", n, 1, FALSE) : n \in 1..MaxNth } \cup
    { Env("hdr", "eof", n, 1, FALSE) : n \in 1..MaxNth } \cup
    { Env("hdr", "read_eof", 1, 1, FALSE),
      Env("hdr", "skip_mismatch", 1, 1, TRUE),
      Env("hdr", "skip_zero", 1, 1, FALSE),
      Env("hdr", "codec", 1, 1, FALSE) }

DataFaults ==
    { Env("data", "read_fatal", n, c, FALSE) : n \in 1..MaxNth, c \in Chunks } \cup
    { Env("data", "skip_mismatch", 1, 1, TRUE),
      Env("data", "codec", 1, 1, FALSE) }

FreeFaults ==
    { Env("free", "close_fatal", 1, 1, FALSE),
      Env("free", "codec", 1, 1, FALSE) }

\* ----------------------------------------------------------------- state
VARIABLES
    archive,   \* the archive behind the VolumeReader
    vol,       \* the VolumeArchiveLibarchive object
    codec,     \* the libarchive instance
    reader,    \* the VolumeReader
    phase,     \* where the caller is in the object's life
    last,      \* the last public call: arguments, result, log
    hist       \* history: failures so far, GetNextHeader calls so far

vars == << archive, vol, codec, reader, phase, last, hist >>

\* The byte at position p of entry i.
Byte(i, p) == << i, p >>
Junk == << 0, 0 >>

\* The log of a call in progress.
NewLog(e) ==
    [ env |-> e,
      halt |-> "no",       \* "no", or how the call stopped the program
      rv |-> 0,            \* return value of the last callee (a number)
      ok |-> TRUE,         \* return value of the last callee (a bool)
      data |-> << >>,      \* the bytes *buffer hands to the caller
      path |-> "NULL",     \* *pathname of the last GetNextHeader
      hdrCalls |-> 0,      \* archive_read_next_header calls
      dataCalls |-> 0,     \* archive_read_data calls that pulled
      frees |-> 0,         \* archive_read_free calls
      seeks |-> 0,         \* reader()->Seek(0, SEEK_SET) calls of DecompressData
      inits |-> 0,         \* Init calls
      failures |-> 0,      \* codec calls that reported a failure
      decoded |-> FALSE,   \* the copy loop of DecompressData ran
      syncAtCopy |-> FALSE,\* the codec stood at the cursor when it started
      maxWrite |-> -1,     \* highest buffer index archive_read_data wrote
      pulls |-> {},        \* the pull-reads: site, header_read_, hint, cache use
      moves |-> << >>,     \* the assignments to last_read_data_offset_
      cut |-> FALSE,       \* the archive ended before its last entry
      uar |-> FALSE,       \* a released codec was used
      cb |-> {} ]          \* the callbacks' fatal returns

Pack(e) == [ v |-> vol, c |-> codec, rd |-> reader, g |-> NewLog(e) ]

Halt(s, how) == [s EXCEPT !.g.halt = how]

EntryCount == Len(archive)

\* archive_entry_size / archive_entry_pathname of the codec's entry object
\* (cleared, so size 0 and no pathname, before the first header and at the
\* end of the archive).
EntrySize(s) ==
    IF s.c.ent \in 1..EntryCount THEN archive[s.c.ent].size ELSE 0

EntryPath(s) ==
    IF s.c.ent \in 1..EntryCount THEN archive[s.c.ent].path ELSE "NULL"

\* ------------------------------------------------------------- callbacks
\* A callback returns ret to the codec.  The log keeps the fatal returns, each
\* with the codec's error string at that moment.
Return(s, name, ret) ==
    [s EXCEPT !.g.rv = ret,
              !.g.cb = IF ret = ARCHIVE_FATAL
                       THEN @ \cup {[cb |-> name, msg |-> s.c.msg]}
                       ELSE @]

SetLibarchiveErrorToVolumeReaderError(s) ==
    [s EXCEPT !.c.msg = kVolumeReaderError]

\* One pull-read at a codec call site.  po is what the HeaderCache and the
\* VolumeReader answer: po.hit (GetHeader finds the offset), po.skip_ok
\* (Skip advances by header_size), po.read ("ok", "eof" or "fatal").
NotePull(s, site, consulted, stored) ==
    [s EXCEPT !.g.pulls = @ \cup
        {[site |-> site, hint |-> s.v.reader_data_size_,
          consulted |-> consulted, stored |-> stored]}]

CustomArchiveRead_NoErrorOnSkip(s, site, po) ==
    IF s.v.header_read_ /\ po.hit
    THEN IF ~po.skip_ok
         THEN Return(NotePull(s, site, TRUE, FALSE), "read_skip", ARCHIVE_FATAL)
         ELSE Return(NotePull(s, site, TRUE, FALSE), "read_hit", kHeaderChunkSize)
    ELSE LET read_bytes == CASE po.read = "fatal" -> ARCHIVE_FATAL
                             [] po.read = "eof" -> 0
                             [] OTHER -> s.v.reader_data_size_
         IN  IF read_bytes = ARCHIVE_FATAL
             THEN Return(SetLibarchiveErrorToVolumeReaderError(
                             NotePull(s, site, s.v.header_read_, FALSE)),
                         "read", ARCHIVE_FATAL)
             ELSE Return(NotePull(s, site, s.v.header_read_,
                                  s.v.header_read_ /\ read_bytes > 0),
                         "read", read_bytes)

CustomArchiveRead(s, site, po) ==
    IF s.v.header_read_ /\ po.hit
    THEN \* Get header data from local cache, advance the reader.
         IF ~po.skip_ok
         THEN Return(SetLibarchiveErrorToVolumeReaderError(
                         NotePull(s, site, TRUE, FALSE)),
                     "read_skip", ARCHIVE_FATAL)
         ELSE Return(NotePull(s, site, TRUE, FALSE), "read_hit", kHeaderChunkSize)
    ELSE LET read_bytes == CASE po.read = "fatal" -> ARCHIVE_FATAL
                             [] po.read = "eof" -> 0
                             [] OTHER -> s.v.reader_data_size_
         IN  IF read_bytes = ARCHIVE_FATAL
             THEN Return(SetLibarchiveErrorToVolumeReaderError(
                             NotePull(s, site, s.v.header_read_, FALSE)),
                         "read", ARCHIVE_FATAL)
             ELSE \* Save header data in HeaderCache.
                  Return(NotePull(s, site, s.v.header_read_,
                                  s.v.header_read_ /\ read_bytes > 0),
                         "read", read_bytes)

\* VolumeReader::Skip returns 0 in case of failure.
CustomArchiveSkip(s, request, ok) ==
    Return(s, "skip", IF ok THEN request ELSE 0)

CustomArchiveSeek(s, ok) ==
    LET new_offset == IF ok THEN 0 ELSE ARCHIVE_FATAL
    IN  IF new_offset = ARCHIVE_FATAL
        THEN Return(SetLibarchiveErrorToVolumeReaderError(s), "seek", new_offset)
        ELSE Return(s, "seek", new_offset)

CustomArchiveClose(s, ok) ==
    LET result == IF ok THEN ARCHIVE_OK ELSE ARCHIVE_FATAL
    IN  IF result = ARCHIVE_FATAL
        THEN Return(SetLibarchiveErrorToVolumeReaderError(s), "close", result)
        ELSE Return(s, "close", result)

\* ----------------------------------------------------------------- codec
\* libarchive, as the calls of this file use it.  A codec call on a released
\* or missing instance is undefined: the call in progress halts with "ub".
Live(s) == s.v.archive_ = "ptr" /\ s.c.live

UseAfterRelease(s) ==
    Halt([s EXCEPT !.g.uar = (s.v.archive_ = "ptr")], "ub")

\* Whether the environment fails the codec call at this site, and how.
FaultKind(s, site) ==
    IF /\ s.g.env.site = site
       /\ (site = "hdr" => s.g.hdrCalls = s.g.env.nth)
       /\ (site = "data" => s.g.dataCalls = s.g.env.nth)
    THEN s.g.env.kind
    ELSE "none"

\* The codec call fails; own: the codec found the error itself and set its
\* error string, otherwise a callback reported it.
CodecFail(s, own) ==
    [s EXCEPT !.c.state = "fatal",
              !.c.msg = IF own THEN "codec error" ELSE @,
              !.g.rv = ARCHIVE_FATAL,
              !.g.failures = @ + 1]

\* What the HeaderCache and the VolumeReader answer to one pull-read.
PullAnswer(s, site) ==
    [hit |-> s.g.env.hit,
     skip_ok |-> FaultKind(s, site) # "skip_mismatch",
     read |-> CASE FaultKind(s, site) = "read_fatal" -> "fatal"
                [] FaultKind(s, site) = "read_eof" -> "eof"
                [] OTHER -> "ok"]

\* What the codec makes of the read callback's return value; own: it finds
\* the bytes it got corrupt.
Pulled(s, own) ==
    IF s.g.rv < 0 THEN CodecFail(s, FALSE)
    ELSE IF s.g.rv = 0 \/ own THEN CodecFail(s, TRUE)
    ELSE [s EXCEPT !.g.rv = ARCHIVE_OK]

\* The codec pulls raw bytes through the read callback.
Pull(s, site) ==
    Pulled(CustomArchiveRead(s, site, PullAnswer(s, site)),
           FaultKind(s, site) = "codec")

archive_read_new(s) ==
    IF FaultKind(s, "new") = "null"
    THEN [s EXCEPT !.v.archive_ = "NULL", !.g.failures = @ + 1]
    ELSE [s EXCEPT !.v.archive_ = "ptr",
                   !.c = [live |-> TRUE, state |-> "new", ent |-> 0,
                          pos |-> 0, msg |-> "unset"]]

archive_read_support_format(s) ==
    IF ~Live(s) THEN UseAfterRelease(s)
    ELSE IF FaultKind(s, "support") = "codec" THEN CodecFail(s, TRUE)
    ELSE [s EXCEPT !.g.rv = ARCHIVE_OK]

\* archive_read_open1 seeks to the start through the seek callback, then
\* pulls the first bytes.
OpenAfterPull(s) ==
    IF s.g.rv = ARCHIVE_OK THEN [s EXCEPT !.c.state = "open"] ELSE s

OpenAfterSeek(s) ==
    IF s.g.rv < 0 THEN CodecFail(s, FALSE)
    ELSE OpenAfterPull(Pull(s, "open"))

archive_read_open1(s) ==
    IF ~Live(s) THEN UseAfterRelease(s)
    ELSE OpenAfterSeek(CustomArchiveSeek(s, FaultKind(s, "open") # "seek_fatal"))

\* archive_read_next_header skips what is left of the current entry's data,
\* then reads the next header into the codec's entry object, which *entry
\* points to afterwards.
NextHeaderSkip(s) ==
    IF s.c.state = "data" /\ s.c.pos < EntrySize(s)
    THEN CustomArchiveSkip(s, EntrySize(s) - s.c.pos,
                           FaultKind(s, "hdr") # "skip_zero")
    ELSE s

NextHeaderAfterPull(s, at_end) ==
    IF s.g.rv # ARCHIVE_OK
    THEN [s EXCEPT !.c.ent = 0]
    ELSE IF at_end
    THEN [s EXCEPT !.c.state = "eof", !.c.ent = 0,
                   !.c.pos = 0, !.g.rv = ARCHIVE_EOF,
                   !.g.cut = (s.c.ent # EntryCount)]
    ELSE [s EXCEPT !.c.state = "data", !.c.ent = @ + 1,
                   !.c.pos = 0, !.g.rv = ARCHIVE_OK]

NextHeaderRead(s) ==
    IF s.c.state \notin {"open", "data"}
    THEN [CodecFail(s, TRUE) EXCEPT !.c.ent = 0]
    ELSE NextHeaderAfterPull(Pull(NextHeaderSkip(s), "hdr"),
                             s.c.ent = EntryCount \/ FaultKind(s, "hdr") = "eof")

archive_read_next_header(s) ==
    IF ~Live(s) THEN UseAfterRelease(s)
    ELSE NextHeaderRead([s EXCEPT !.v.current_archive_entry_ = "entry",
                                  !.g.hdrCalls = @ + 1])

\* archive_read_data decodes up to req bytes of the current entry to buffer
\* index at (0-based; at < 0: the dummy buffer) and returns the count, 0 at
\* the end of the entry.
DataCount(s, req) ==
    Min(Min(req, EntrySize(s) - s.c.pos), s.g.env.chunk)

DataAfterPull(s, at, n) ==
    IF s.g.rv # ARCHIVE_OK THEN s
    ELSE [s EXCEPT
             !.g.rv = n,
             !.c.pos = @ + n,
             !.g.maxWrite = IF at < 0 THEN @ ELSE Max(@, at + n - 1),
             !.v.decompressed_data_buffer_ =
                 IF at < 0 THEN @
                 ELSE [i \in 1..kDecompressBufferSize |->
                         IF i - 1 \in at..(at + n - 1)
                         THEN Byte(s.c.ent, s.c.pos + (i - 1 - at))
                         ELSE @[i]]]

archive_read_data(s, at, req) ==
    IF ~Live(s) THEN UseAfterRelease(s)
    ELSE IF s.c.state # "data" THEN CodecFail(s, TRUE)
    ELSE IF DataCount(s, req) <= 0 THEN [s EXCEPT !.g.rv = 0]
    ELSE DataAfterPull(Pull([s EXCEPT !.g.dataCalls = @ + 1], "data"),
                       at, DataCount(s, req))

\* archive_read_free closes the stream through the close callback and
\* releases the instance, whatever it returns; the entry object goes with it.
FreeClose(s) ==
    IF s.c.state \in {"open", "data", "eof"}
    THEN CustomArchiveClose(s, FaultKind(s, "free") # "close_fatal")
    ELSE [s EXCEPT !.g.rv = ARCHIVE_OK]

FreeAfterClose(s, own) ==
    [s EXCEPT
        !.c.live = FALSE,
        !.c.msg = IF own THEN "codec error" ELSE @,
        !.v.current_archive_entry_ = IF @ = "entry" THEN "freed" ELSE @,
        !.g.rv = IF s.g.rv # ARCHIVE_OK \/ own THEN ARCHIVE_FATAL ELSE ARCHIVE_OK,
        !.g.failures = IF s.g.rv # ARCHIVE_OK \/ own THEN @ + 1 ELSE @]

archive_read_free(s) ==
    IF ~Live(s) THEN UseAfterRelease(s)
    ELSE FreeAfterClose(FreeClose([s EXCEPT !.g.frees = @ + 1]),
                        FaultKind(s, "free") = "codec")

\* --------------------------------------------------------------- methods
Stopped(s) == s.g.halt # "no"

set_error_message(s, message) == [s EXCEPT !.v.error_message = message]

\* set_error_message(ArchiveError(prefix, archive_)): archive_error_string of
\* a released codec reads released memory, and of a codec whose error string
\* nobody set reads invalid memory (see the comment at the callbacks).
SetArchiveError(s, prefix) ==
    IF ~s.c.live
    THEN set_error_message([s EXCEPT !.g.uar = TRUE], << prefix, "indeterminate" >>)
    ELSE IF s.c.msg = "unset" THEN Halt(s, "ub")
    ELSE set_error_message(s, << prefix, s.c.msg >>)

\* Init, lines 139-172: after archive_read_open1, after the support_format
\* calls, after archive_read_new.
InitAfterOpen(s) ==
    IF Stopped(s) THEN s
    ELSE IF s.g.rv # ARCHIVE_OK
    THEN [SetArchiveError(s, "kArchiveOpenErrorPrefix") EXCEPT !.g.ok = FALSE]
    ELSE [s EXCEPT !.g.ok = TRUE]

InitAfterSupport(s) ==
    IF Stopped(s) THEN s
    ELSE IF s.g.rv # ARCHIVE_OK
    THEN [SetArchiveError(s, "kArchiveSupportErrorPrefix") EXCEPT !.g.ok = FALSE]
    ELSE InitAfterOpen(archive_read_open1([s EXCEPT !.v.header_read_ = TRUE]))

InitAfterNew(s) ==
    IF s.v.archive_ = "NULL"
    THEN [set_error_message(s, << "kArchiveReadNewError" >>)
             EXCEPT !.g.ok = FALSE]
    ELSE InitAfterSupport(archive_read_support_format(s))

VolumeInit(s) ==
    InitAfterNew(archive_read_new([s EXCEPT !.g.inits = @ + 1]))

\* GetNextHeader, lines 188-203: the switch on archive_read_next_header.
GetNextHeaderSwitch(s) ==
    IF Stopped(s) THEN s
    ELSE CASE s.g.rv = ARCHIVE_EOF ->
                [s EXCEPT !.g.ok = TRUE, !.g.path = "NULL"]
           [] s.g.rv = ARCHIVE_OK ->
                [s EXCEPT !.g.ok = TRUE, !.g.path = EntryPath(s)]
           [] OTHER ->
                [SetArchiveError(s, "kArchiveNextHeaderErrorPrefix")
                    EXCEPT !.g.ok = FALSE]

GetNextHeader(s) ==
    GetNextHeaderSwitch(archive_read_next_header(
        [s EXCEPT !.v.header_read_ = TRUE,
                  !.v.reader_data_size_ = kHeaderChunkSize,
                  !.v.last_read_data_offset_ = 0,
                  !.g.moves = Append(@, [by |-> "reset", to |-> 0,
                                         reinit |-> s.g.inits > 0])]))

ReplayLoop_StopsAtFirst(s, file_path_name) == GetNextHeader(s)

\* Lines 238-252: iterate the headers until file_path_name comes again.
RECURSIVE ReplayLoop(_, _)

\* The loop without decompressed_error_ = true at kFileNotFound (line 246).
ReplayAfterHeader_NotFoundNoFlag(s, file_path_name) ==
    IF Stopped(s) THEN s
    ELSE IF ~s.g.ok
    THEN [s EXCEPT !.v.decompressed_error_ = TRUE]
    ELSE IF s.g.path = "NULL"
    THEN [set_error_message(s, << "kFileNotFound" >>) EXCEPT !.g.ok = FALSE]
    ELSE IF file_path_name = s.g.path
    THEN s
    ELSE ReplayLoop(s, file_path_name)

\* Lines 240-251: after one GetNextHeader of the loop.
ReplayAfterHeader(s, file_path_name) ==
    IF Stopped(s) THEN s
    ELSE IF ~s.g.ok
    THEN [s EXCEPT !.v.decompressed_error_ = TRUE]
    ELSE IF s.g.path = "NULL"
    THEN [set_error_message(s, << "kFileNotFound" >>)
             EXCEPT !.v.decompressed_error_ = TRUE, !.g.ok = FALSE]
    ELSE IF file_path_name = s.g.path
    THEN s
    ELSE ReplayLoop(s, file_path_name)

ReplayLoop(s, file_path_name) ==
    ReplayAfterHeader(GetNextHeader(s), file_path_name)

RewindAfterInit_NoFlag(s, file_path_name) ==
    IF Stopped(s) \/ ~s.g.ok THEN s ELSE ReplayLoop(s, file_path_name)

\* Lines 225-252: after reader()->Seek(0, SEEK_SET) and Init.
RewindAfterInit(s, file_path_name) ==
    IF Stopped(s) THEN s
    ELSE IF ~s.g.ok
    THEN [s EXCEPT !.v.decompressed_error_ = TRUE]
    ELSE ReplayLoop(s, file_path_name)

\* Lines 218-231: after archive_read_free.
RewindAfterFree(s, file_path_name) ==
    IF Stopped(s) THEN s
    ELSE IF s.g.rv # ARCHIVE_OK
    THEN [SetArchiveError(s, "kArchiveReadDataErrorPrefix")
             EXCEPT !.v.decompressed_error_ = TRUE, !.g.ok = FALSE]
    ELSE RewindAfterInit(VolumeInit([s EXCEPT !.g.seeks = @ + 1]),
                         file_path_name)

\* Lines 214-255: the request lies before the last read offset.  Leaves g.ok
\* FALSE where DecompressData returns early.
Rewind(s) ==
    IF s.v.current_archive_entry_ # "entry" THEN Halt(s, "ub")
    ELSE RewindAfterFree(archive_read_free(s), EntryPath(s))

\* Lines 286 and 374: last_read_data_offset_ += size.
Advance_Restart(cursor, size) == size

Advance(cursor, size) == cursor + size

SkipLoop_NoSkip(s, offset) == s

\* Lines 260-287: unpack and drop the bytes before offset.
RECURSIVE SkipLoop(_, _)

\* Lines 278-286: after one archive_read_data of the loop.  A pull of 0
\* bytes trips PP_DCHECK(size != 0); without the check the loop adds 0 for
\* ever.
SkipAfterData(s, offset) ==
    IF Stopped(s) THEN s
    ELSE IF s.g.rv = 0 THEN Halt(s, "dcheck")
    ELSE IF s.g.rv < 0
    THEN [SetArchiveError(s, "kArchiveReadDataErrorPrefix")
             EXCEPT !.v.decompressed_error_ = TRUE, !.g.ok = FALSE]
    ELSE SkipLoop([s EXCEPT
                      !.v.last_read_data_offset_ = Advance(@, s.g.rv),
                      !.g.moves = Append(@,
                          [by |-> "skip",
                           to |-> Advance(s.v.last_read_data_offset_, s.g.rv),
                           reinit |-> s.g.inits > 0])],
                  offset)

\* Lines 267-270 and 296-301: the size of the chunks the reader is asked for.
ChunkHint(want) ==
    Max(Min(want, kMaximumDataChunkSize), kMinimumDataChunkSize)

SkipLoop(s, offset) ==
    IF ~(offset > s.v.last_read_data_offset_) THEN s
    ELSE SkipAfterData(
             archive_read_data(
                 [s EXCEPT !.v.reader_data_size_ =
                      ChunkHint(offset - s.v.last_read_data_offset_)],
                 -1,
                 Min(offset - s.v.last_read_data_offset_, kDummyBufferSize)),
             offset)

\* Line 214: the request lies before the last read offset.
SeeksBack_OnAnyMove(offset, cursor) == offset # cursor

SeeksBack(offset, cursor) == offset < cursor

\* Lines 291-292.
WindowWant_NoCap(length) == length

WindowWant(length) == Min(length, kDecompressBufferSize)

\* Lines 304-323: the copy into the window, which then starts at the buffer.
RECURSIVE CopyLoop(_, _, _)

\* Lines 309-323: after one archive_read_data of the loop.
CopyAfterData(s, bytes_read, left_length) ==
    IF Stopped(s) THEN s
    ELSE IF s.g.rv < 0
    THEN [SetArchiveError(s, "kArchiveReadDataErrorPrefix")
             EXCEPT !.v.decompressed_error_ = TRUE, !.g.ok = FALSE]
    ELSE IF left_length - s.g.rv > 0 /\ s.g.rv # 0
    THEN CopyLoop(s, bytes_read + s.g.rv, left_length - s.g.rv)
    ELSE [s EXCEPT !.v.decompressed_data_ = 0,
                   !.v.decompressed_data_size_ = bytes_read + s.g.rv]

CopyLoop(s, bytes_read, left_length) ==
    CopyAfterData(archive_read_data(s, bytes_read, left_length),
                  bytes_read, left_length)

\* Lines 289-323: after the skip loop.
DecompressAfterSkip(s, length) ==
    IF Stopped(s) \/ ~s.g.ok THEN s
    ELSE CopyLoop([s EXCEPT
                      !.v.reader_data_size_ = ChunkHint(WindowWant(length)),
                      !.g.decoded = TRUE,
                      !.g.syncAtCopy = (s.c.pos = s.v.last_read_data_offset_)],
                  0, WindowWant(length))

\* Lines 257-323: after the rewind, if there was one.
DecompressAfterSeek(s, offset, length) ==
    IF Stopped(s) \/ ~s.g.ok THEN s
    ELSE DecompressAfterSkip(SkipLoop(s, offset), length)

\* Lines 214-255.
DecompressSeek(s, offset) ==
    IF SeeksBack(offset, s.v.last_read_data_offset_) THEN Rewind(s) ELSE s

DecompressData(s, offset, length) ==
    DecompressAfterSeek(
        DecompressSeek([s EXCEPT !.v.header_read_ = FALSE, !.g.ok = TRUE],
                       offset),
        offset, length)

\* CleanupReader() of the base class releases the VolumeReader.
CleanupReader(s) == [s EXCEPT !.rd.released = TRUE]

\* Lines 328-338: after archive_read_free, if archive_ was set.
CleanupAfterFree(s, failed) ==
    IF Stopped(s) THEN s
    ELSE IF failed
    THEN CleanupReader([SetArchiveError(s, "kArchiveReadFreeErrorPrefix")
                           EXCEPT !.v.archive_ = "NULL", !.g.ok = FALSE])
    ELSE CleanupReader([s EXCEPT !.v.archive_ = "NULL", !.g.ok = TRUE])

CleanupFree(s) ==
    IF s.v.archive_ # "NULL"
    THEN archive_read_free(s)
    ELSE [s EXCEPT !.g.rv = ARCHIVE_OK]

CleanupFreed(s) == CleanupAfterFree(s, s.g.rv # ARCHIVE_OK)

Cleanup(s) == CleanupFreed(CleanupFree(s))

\* Line 371.
ReadBytes_WholeWindow(size, length) == size

ReadBytes(size, length) == Min(size, length)

\* The byte at 0-based index i of the window buffer (Junk outside it).
BufAt(s, i) ==
    IF i \in 0..(kDecompressBufferSize - 1)
    THEN s.v.decompressed_data_buffer_[i + 1]
    ELSE Junk

\* Lines 361-380: after DecompressData, if it was called.
ReadDataServe(s, length) ==
    IF Stopped(s) THEN s
    ELSE IF s.v.decompressed_error_
    THEN [s EXCEPT !.g.rv = kArchiveReadDataError]
    ELSE [s EXCEPT
             !.v.last_read_data_length_ = length,
             !.v.decompressed_data_ =
                 @ + ReadBytes(s.v.decompressed_data_size_, length),
             !.v.decompressed_data_size_ =
                 @ - ReadBytes(s.v.decompressed_data_size_, length),
             !.v.last_read_data_offset_ =
                 Advance(@, ReadBytes(s.v.decompressed_data_size_, length)),
             !.g.moves = Append(@,
                 [by |-> "read",
                  to |-> Advance(s.v.last_read_data_offset_,
                                 ReadBytes(s.v.decompressed_data_size_, length)),
                  reinit |-> s.g.inits > 0]),
             !.g.data =
                 [i \in 1..ReadBytes(s.v.decompressed_data_size_, length) |->
                     BufAt(s, s.v.decompressed_data_ + i - 1)],
             !.g.rv = ReadBytes(s.v.decompressed_data_size_, length)]

\* Lines 357-359.
ReadDataDecompress(s, offset, length) ==
    IF \/ s.v.decompressed_data_ = -1
       \/ s.v.last_read_data_offset_ # offset
       \/ s.v.decompressed_data_size_ = 0
    THEN DecompressData(s, offset, length)
    ELSE s

\* ReadData without the end-of-entry test of lines 349-350.
ReadData_NoEndCheck(s, offset, length) ==
    IF s.v.current_archive_entry_ # "entry" THEN Halt(s, "ub")
    ELSE ReadDataServe(ReadDataDecompress(s, offset, length), length)

\* The caller keeps to PP_DCHECK(length > 0).  archive_entry_size of an entry
\* object that went with its codec is undefined.
ReadData(s, offset, length) ==
    IF s.v.current_archive_entry_ # "entry" THEN Halt(s, "ub")
    ELSE IF EntrySize(s) <= offset THEN [s EXCEPT !.g.rv = 0]
    ELSE ReadDataServe(ReadDataDecompress(s, offset, length), length)

MaybeDecompressAhead(s) ==
    IF s.v.decompressed_data_size_ = 0
    THEN DecompressData(s, s.v.last_read_data_offset_, s.v.last_read_data_length_)
    ELSE s

\* ---------------------------------------------------------------- actions
\* How a call can end: "no" (it returns), or the way it stops the program.
\* A tripped PP_DCHECK aborts a build that has the checks and leaves the
\* others in an endless loop; a call that read a released codec's memory may
\* return as if nothing had happened or go wrong.
Outcomes(s) ==
    CASE s.g.halt = "dcheck" -> {"aborted", "spinning"}
      [] s.g.halt = "ub" -> {"ub"}
      [] OTHER -> IF s.g.uar THEN {"no", "ub"} ELSE {"no"}

\* What the last public call was and did.  first: it was the first ReadData
\* on the entry GetNextHeader selected; preError: decompressed_error_ was set
\* when it began.
Note(op, offset, length, s, how) ==
    [ op |-> op, offset |-> offset, length |-> length,
      returned |-> (how = "no"),
      ret |-> IF how = "no" THEN s.g.rv ELSE 0,
      ok |-> (how = "no" /\ s.g.ok),
      data |-> IF how = "no" THEN s.g.data ELSE << >>,
      first |-> (op = "ReadData" /\ last.op = "GetNextHeader"),
      preError |-> vol.decompressed_error_,
      frees |-> s.g.frees,
      maxWrite |-> s.g.maxWrite,
      cb |-> s.g.cb ]

Failed(s) ==
    hist.failed \/ s.g.failures > 0 \/ Stopped(s) \/ s.g.uar \/ s.g.cut

\* The owner goes on making calls (Cleanup and the destructor always run).
Going == hist.afterFail < MaxAfterFail

\* The history after a call: whether anything has failed, how many calls have
\* been made since, how many GetNextHeader calls the owner has made, and
\* whether a call has released and reopened the codec.
After(op, s) ==
    [ failed |-> Failed(s),
      afterFail |-> IF hist.failed /\ Going
                    THEN hist.afterFail + 1
                    ELSE hist.afterFail,
      listed |-> IF op = "GetNextHeader" THEN hist.listed + 1 ELSE hist.listed,
      rewound |-> op # "Init" /\ (hist.rewound \/ s.g.inits > 0) ]

\* The phase after a call that returned.
Returned(op, s) ==
    CASE op = "Init" -> IF s.g.ok THEN "ready" ELSE "initfail"
      [] op = "Cleanup" -> "cleaned"
      [] op = "~VolumeArchiveLibarchive" -> "destroyed"
      [] OTHER -> "ready"

\* The state after the call op(offset, length) that did s.
Commit(op, offset, length, s) ==
    /\ vol' = s.v
    /\ codec' = s.c
    /\ reader' = s.rd
    /\ \E how \in Outcomes(s) :
         /\ phase' = IF how = "no" THEN Returned(op, s) ELSE how
         /\ last' = Note(op, offset, length, s, how)
    /\ hist' = After(op, s)
    /\ archive' = archive

\* The environments of a call: the environment fails one call of a run, so
\* once a call has failed the later ones meet no fault of their own.
Envs(faults) == IF hist.failed THEN NoFault ELSE NoFault \cup faults

\* The state after the constructor (lines 117-133).
Init ==
    /\ archive \in Archives
    /\ vol = [ header_read_ |-> FALSE,
               reader_data_size_ |-> kHeaderChunkSize,
               archive_ |-> "NULL",
               current_archive_entry_ |-> "NULL",
               last_read_data_offset_ |-> 0,
               last_read_data_length_ |-> 0,
               decompressed_data_ |-> -1,
               decompressed_data_size_ |-> 0,
               decompressed_error_ |-> FALSE,
               decompressed_data_buffer_ |->
                   [i \in 1..kDecompressBufferSize |-> Junk],
               error_message |-> << >> ]
    /\ codec = [live |-> FALSE, state |-> "none", ent |-> 0, pos |-> 0,
                msg |-> "unset"]
    /\ reader = [released |-> FALSE]
    /\ phase = "constructed"
    /\ hist = [failed |-> FALSE, afterFail |-> 0, listed |-> 0,
               rewound |-> FALSE]
    /\ last = [ op |-> "new", offset |-> 0, length |-> 0, returned |-> TRUE,
                ret |-> 0, ok |-> TRUE, data |-> << >>, first |-> FALSE,
                preError |-> FALSE, frees |-> 0, maxWrite |-> -1, cb |-> {} ]

DoInit ==
    /\ phase = "constructed"
    /\ \E e \in Envs(InitFaults) :
         Commit("Init", 0, 0, VolumeInit(Pack(e)))

\* A GetNextHeader call of the owner: at most one past the last entry.
ListNextEntry ==
    /\ phase = "ready"
    /\ Going
    /\ hist.listed <= EntryCount
    /\ \E e \in Envs(HeaderFaults) :
         Commit("GetNextHeader", 0, 0, GetNextHeader(Pack(e)))

\* There is a current entry: GetNextHeader has run and has not reached the end.
HasEntry ==
    /\ vol.current_archive_entry_ # "NULL"
    /\ ~(codec.live /\ codec.state = "eof")

\* The environments that make a difference to ReadData(offset, ...): the
\* codec is released, made and opened again and the headers replayed only
\* when offset lies before the last read offset.
ReadEnvs(offset) ==
    IF offset < vol.last_read_data_offset_
    THEN Envs(InitFaults \cup HeaderFaults \cup DataFaults \cup FreeFaults)
    ELSE Envs(DataFaults)

ReadAt ==
    /\ phase = "ready"
    /\ Going
    /\ HasEntry
    /\ \E offset \in 0..MaxOffset, length \in 1..MaxLen :
       \E e \in ReadEnvs(offset) :
         Commit("ReadData", offset, length, ReadData(Pack(e), offset, length))

DecompressAhead ==
    /\ phase = "ready"
    /\ Going
    /\ HasEntry
    /\ \E e \in Envs(DataFaults) :
         Commit("MaybeDecompressAhead", 0, 0, MaybeDecompressAhead(Pack(e)))

DoCleanup ==
    /\ phase \in {"constructed", "ready", "initfail", "cleaned"}
    /\ \E e \in Envs(FreeFaults) :
         Commit("Cleanup", 0, 0, Cleanup(Pack(e)))

\* The destructor (lines 135-137).
Destroy ==
    /\ phase \in {"constructed", "ready", "initfail", "cleaned"}
    /\ \E e \in Envs(FreeFaults) :
         Commit("~VolumeArchiveLibarchive", 0, 0, Cleanup(Pack(e)))

\* ------------------------------------------------------------ properties
\* The object, codec and reader as they stand, for the operators on a record.
Now == Pack(Env("none", "none", 1, 1, FALSE))

\* The decompressed content of entry i at [o, o + n).
Content(i, o, n) == [k \in 1..n |-> Byte(i, o + k - 1)]

\* The owner may call ReadData, and nothing has failed so far.
Reading == phase = "ready" /\ HasEntry /\ ~hist.failed

\* C1: with unique pathnames and nothing failing, a ReadAt(o, len) with o
\* below the entry's size that returns n > 0 bytes returns the entry's bytes
\* at [o, o + n).
C1_ReadAtReturnsEntryBytes ==
    (/\ last.op = "ReadData" /\ last.returned /\ ~hist.failed
     /\ UniquePaths(archive)
     /\ last.offset < EntrySize(Now) /\ last.ret > 0)
    => last.data = Content(codec.ent, last.offset, last.ret)

\* C2: with nothing failing, a ReadAt(o, len) with o below the entry's size
\* returns exactly min(len, size - o) bytes.
C2_ReadAtReturnsMinLenRest ==
    (/\ last.op = "ReadData" /\ last.returned /\ ~hist.failed
     /\ last.offset < EntrySize(Now))
    => last.ret = Min(last.length, EntrySize(Now) - last.offset)

\* C2, amended: with nothing failing, a ReadAt(o, len) with o below the
\* entry's size returns at most min(len, kDecompressBufferSize) bytes: exactly
\* min(len, bytes in the window) when it serves the window as it is, exactly
\* min(len, size - o, kDecompressBufferSize) when it decodes with the codec
\* standing at the cursor, as it always does after a release and replay.
C2_ReadAtReturnsWindowShare ==
    Reading =>
        \A o \in 0..MaxOffset, len \in 1..MaxLen, e \in NoFault :
            LET s == ReadData(Pack(e), o, len)
            IN  (o < EntrySize(Now) /\ ~Stopped(s)) =>
                    /\ s.g.rv >= 0
                    /\ s.g.rv <= Min(len, kDecompressBufferSize)
                    /\ ~s.g.decoded =>
                           s.g.rv = Min(len, vol.decompressed_data_size_)
                    /\ (s.g.decoded /\ s.g.syncAtCopy) =>
                           s.g.rv = Min(Min(len, EntrySize(s) - o),
                                        kDecompressBufferSize)
                    /\ s.g.frees > 0 => (s.g.decoded /\ s.g.syncAtCopy)

\* A read of more than the window holds came back with a full window, and a
\* read of less than the window holds left the rest in it.
C2_Witness ==
    /\ last.op = "ReadData" /\ ~hist.failed
    /\ \/ last.length > kDecompressBufferSize /\ last.ret = kDecompressBufferSize
       \/ last.ret = last.length /\ vol.decompressed_data_size_ > 0

\* The result of the last GetNextHeader is the hist.listed-th entry, or the
\* end of the archive after the last one.
ListedInOrder ==
    /\ last.ok
    /\ IF hist.listed <= EntryCount
       THEN codec.state = "data" /\ codec.ent = hist.listed
       ELSE codec.state = "eof"

\* C3: the successive results of ListNextEntry are e_1..e_n in archive order,
\* then end-of-archive, whatever ReadAt and MaybeDecompressAhead calls come
\* in between.
C3_ListingInArchiveOrder ==
    (last.op = "GetNextHeader" /\ ~hist.failed) => ListedInOrder

\* C3, amended: in an archive whose pathnames are unique, and with nothing
\* failing, the successive results of ListNextEntry are e_1..e_n in archive
\* order, then end-of-archive, whatever ReadAt and MaybeDecompressAhead calls
\* come in between.
C3_ListingInOrderUniquePaths ==
    (last.op = "GetNextHeader" /\ ~hist.failed /\ UniquePaths(archive))
    => ListedInOrder

\* The end of the archive came after a ReadAt had released the codec and
\* replayed the headers.
C3_Witness ==
    /\ last.op = "GetNextHeader" /\ ~hist.failed /\ UniquePaths(archive)
    /\ hist.rewound
    /\ hist.listed = EntryCount + 1
    /\ codec.state = "eof"

\* C4: the first ReadAt after ListNextEntry selected a new entry, at an
\* offset below its size, serves no byte decoded from another entry.
C4_FirstReadServesNewEntry ==
    (/\ last.op = "ReadData" /\ last.first /\ last.returned /\ ~hist.failed
     /\ last.offset < EntrySize(Now))
    => \A k \in 1..Len(last.data) : last.data[k][1] = codec.ent

\* C5: a ReadAt that begins with the sticky error flag set returns the error
\* sentinel, whatever its offset and length.
C5_StickyErrorFailsEveryRead ==
    (last.op = "ReadData" /\ last.preError)
    => (last.returned /\ last.ret = kArchiveReadDataError)

\* ReadData at offset releases the codec, whatever the length and the chunks.
Releases(offset) ==
    \E len \in 1..MaxLen, e \in NoFault :
        ReadData(Pack(e), offset, len).g.frees > 0

\* C6: in a sequence of ReadAt calls on one entry with strictly increasing
\* offsets, no call releases and reinitializes the codec: not the one that
\* follows a ReadAt at a smaller offset.
C6_IncreasingOffsetsNeverRelease ==
    (Reading /\ last.op = "ReadData" /\ last.returned)
    => \A o \in (last.offset + 1)..MaxOffset : ~Releases(o)

\* C6, amended: in a sequence of ReadAt calls on one entry in which each
\* offset is at least the previous offset plus the bytes the previous call
\* returned, no call releases and reinitializes the codec: not the first
\* after ListNextEntry, and not one that follows a ReadAt that ended at or
\* before its offset.
C6_ForwardReadsNeverRelease ==
    /\ (Reading /\ last.op = "GetNextHeader")
       => \A o \in 0..MaxOffset : ~Releases(o)
    /\ (Reading /\ last.op = "ReadData" /\ last.returned)
       => \A o \in (last.offset + last.ret)..MaxOffset : ~Releases(o)

\* A ReadAt has returned bytes, and a ReadAt at a greater offset of the entry
\* decodes without releasing the codec.
C6_Witness ==
    /\ Reading /\ last.op = "ReadData" /\ last.ret > 0 /\ ~last.first
    /\ \E o \in (last.offset + last.ret + 1)..MaxOffset, e \in NoFault :
         LET s == ReadData(Pack(e), o, 1)
         IN  o < EntrySize(Now) /\ s.g.decoded /\ s.g.frees = 0

\* C7: a ReadAt(o, len) with o below the entry's size and below the cursor
\* releases the codec once and seeks the reader to 0 and runs Init at most
\* once, decodes only after one release, one seek, one Init and the replay of
\* the headers, and with nothing failing does all of it; with unique
\* pathnames and nothing failing it ends with the codec on the same entry
\* and the cursor at o plus the bytes returned.
C7_BackwardReadOneCycle ==
    (phase = "ready" /\ HasEntry /\ vol.current_archive_entry_ = "entry")
    => \A o \in 0..MaxOffset, len \in 1..MaxLen :
         (o < EntrySize(Now) /\ o < vol.last_read_data_offset_)
         => \A e \in ReadEnvs(o) :
              LET s == ReadData(Pack(e), o, len)
                  cycle == /\ s.g.frees = 1 /\ s.g.seeks = 1 /\ s.g.inits = 1
                           /\ s.g.hdrCalls >= 1
              IN  /\ s.g.frees = 1 /\ s.g.seeks <= 1 /\ s.g.inits <= 1
                  /\ s.g.decoded => (cycle /\ s.g.syncAtCopy)
                  /\ (e \in NoFault /\ ~hist.failed)
                     => /\ ~Stopped(s) /\ cycle /\ s.g.decoded
                        /\ s.g.rv > 0
                        /\ UniquePaths(archive)
                           => /\ s.c.ent = codec.ent
                              /\ s.g.hdrCalls = codec.ent
                              /\ s.v.last_read_data_offset_ = o + s.g.rv

\* A ReadAt at an offset above 0 and below the cursor has released the codec
\* and returned bytes.
C7_Witness ==
    /\ last.op = "ReadData" /\ ~hist.failed /\ UniquePaths(archive)
    /\ last.frees = 1 /\ last.offset > 0 /\ last.ret > 0
    /\ vol.last_read_data_offset_ = last.offset + last.ret

\* C8: the window lies in the buffer (0 <= its length, its start + its length
\* <= kDecompressBufferSize), and no decode writes the buffer at an index
\* >= kDecompressBufferSize, whatever length was asked for.
C8_WindowWithinBuffer ==
    /\ vol.decompressed_data_size_ >= 0
    /\ vol.decompressed_data_ # -1
       => /\ vol.decompressed_data_ >= 0
          /\ vol.decompressed_data_ + vol.decompressed_data_size_
                 <= kDecompressBufferSize
    /\ last.maxWrite < kDecompressBufferSize

\* A ReadAt for more than the buffer holds has filled the buffer to its end.
C8_Witness ==
    /\ last.op = "ReadData" /\ last.length > kDecompressBufferSize
    /\ last.maxWrite = kDecompressBufferSize - 1
    /\ last.ret = kDecompressBufferSize

\* C9: Cleanup releases the codec, then releases the VolumeReader even when
\* the codec's release failed, and returns true only if the release succeeded.
C9_CleanupReleasesBoth ==
    last.op = "Cleanup"
    => /\ last.returned
       /\ reader.released
       /\ vol.archive_ = "NULL"
       /\ last.ok => (last.frees <= 1 /\ last.cb = {})

\* C10: a callback that returns ARCHIVE_FATAL to the codec has set the
\* codec's error string before it returns.
C10_FatalAfterErrorString ==
    \A r \in last.cb : r.msg = kVolumeReaderError

\* The read callback has returned ARCHIVE_FATAL after a skip that fell short.
C10_Witness ==
    \E r \in last.cb : r.cb = "read_skip" /\ r.msg = kVolumeReaderError

\* The call that did s met one of the failures the instance reports: a codec
\* call reported an error (and not the release of the codec), or the replay
\* of the headers ran into the end of the archive.
MetFailure(s) ==
    ~s.g.uar /\ (s.g.failures > 0 \/ (s.g.cut /\ s.g.inits > 0))

\* The call that did s left the sticky error flag and an error message.
Flagged(s) ==
    ~Stopped(s) /\ s.v.decompressed_error_ /\ s.v.error_message # << >>

\* The call that did s left an error message and returned false, and did not
\* touch the sticky error flag.
Reported(s) ==
    /\ ~Stopped(s) /\ ~s.g.ok /\ s.v.error_message # << >>
    /\ s.v.decompressed_error_ = vol.decompressed_error_

NeverBackButToZero(s) ==
    \A i \in 1..Len(s.g.moves) :
        LET before == IF i = 1 THEN vol.last_read_data_offset_
                      ELSE s.g.moves[i - 1].to
        IN  s.g.moves[i].to >= before
            \/ (s.g.moves[i].by = "reset" /\ s.g.moves[i].to = 0)

Resets(s) == { i \in 1..Len(s.g.moves) : s.g.moves[i].by = "reset" }

\* C12: last_read_data_offset_ never decreases except by a reset to 0, and
\* it is reset to 0 exactly when the codec is reinitialized.
C12_ResetExactlyOnReinit ==
    (phase = "ready" /\ ~hist.failed) =>
      /\ hist.listed <= EntryCount =>
           \A e \in NoFault :
             LET s == GetNextHeader(Pack(e))
             IN  /\ NeverBackButToZero(s)
                 /\ Resets(s) # {} <=> s.g.inits > 0
      /\ HasEntry =>
           \A o \in 0..MaxOffset, len \in 1..MaxLen, e \in NoFault :
             LET s == ReadData(Pack(e), o, len)
             IN  /\ NeverBackButToZero(s)
                 /\ Resets(s) # {} <=> s.g.inits > 0

\* C12, amended: last_read_data_offset_ never decreases except by a reset to
\* 0, and it is reset to 0 exactly in GetNextHeader: once in every
\* ListNextEntry, whether the codec was reinitialized or not, and in a ReadAt
\* only in the replay of the headers after the release and Init of a
\* backward seek (at least once when nothing fails); MaybeDecompressAhead
\* and a ReadAt at or after the cursor never reset it.
C12_ResetExactlyInGetNextHeader ==
    [](
      phase = "ready" =>
        /\ hist.listed <= EntryCount =>
             \A e \in Envs(HeaderFaults) :
               LET s == GetNextHeader(Pack(e))
               IN  /\ NeverBackButToZero(s)
                   /\ Len(s.g.moves) = 1 /\ Resets(s) = {1}
        /\ HasEntry =>
             /\ \A o \in 0..MaxOffset, len \in 1..MaxLen : \A e \in ReadEnvs(o) :
                  LET s == ReadData(Pack(e), o, len)
                  IN  /\ NeverBackButToZero(s)
                      /\ Resets(s) # {} =>
                             /\ o < vol.last_read_data_offset_
                             /\ s.g.frees = 1 /\ s.g.inits = 1
                             /\ \A i \in Resets(s) : s.g.moves[i].reinit
                      /\ ( /\ e \in NoFault /\ ~hist.failed
                           /\ o < EntrySize(Now) /\ o < vol.last_read_data_offset_ )
                         => Resets(s) # {}
             /\ \A e \in Envs(DataFaults) :
                  LET s == MaybeDecompressAhead(Pack(e))
                  IN  NeverBackButToZero(s) /\ Resets(s) = {}
    )

\* A ReadAt before the cursor resets last_read_data_offset_ in the replay,
\* skips forward and ends with it above 0 and below where it was.
C12_Witness ==
    /\ phase = "ready" /\ HasEntry /\ ~hist.failed
    /\ \E o \in 1..MaxOffset, e \in NoFault :
         LET s == ReadData(Pack(e), o, 1)
         IN  /\ Resets(s) # {}
             /\ \E i \in 1..Len(s.g.moves) : s.g.moves[i].by = "skip"
             /\ s.v.last_read_data_offset_ > 0
             /\ s.v.last_read_data_offset_ < vol.last_read_data_offset_

\* C13: a ReadAt(o, len) with o at or past the current entry's size returns 0,
\* makes no call of the codec or the reader, and leaves every field of the
\* object (the cursor, the window's start and length, the last requested
\* length, the header-phase flag, the read-size hint, the error flag) and the
\* codec as they were.
C13_ReadAtPastEndIsFrameOnly ==
    (phase = "ready" /\ HasEntry /\ vol.current_archive_entry_ = "entry")
    => \A o \in 0..MaxOffset, len \in 1..MaxLen :
         (o >= EntrySize(Now))
         => \A e \in ReadEnvs(o) :
              LET s == ReadData(Pack(e), o, len)
              IN  /\ ~Stopped(s) /\ s.g.rv = 0
                  /\ s.v = vol /\ s.c = codec /\ s.rd = reader
                  /\ s.g.hdrCalls = 0 /\ s.g.dataCalls = 0
                  /\ s.g.frees = 0 /\ s.g.seeks = 0 /\ s.g.inits = 0
                  /\ s.g.pulls = {} /\ s.g.failures = 0

\* A ReadAt at the entry's size came back with 0 after a ReadAt had moved the
\* cursor and left a window.
C13_Witness ==
    /\ last.op = "ReadData" /\ last.returned /\ last.ret = 0
    /\ vol.current_archive_entry_ = "entry"
    /\ last.offset >= EntrySize(Now)
    /\ vol.last_read_data_offset_ > 0
    /\ vol.last_read_data_offset_ < last.offset
    /\ vol.decompressed_data_size_ > 0

\* C14: every pull-read the codec makes for DecompressData's skip loop or
\* copy loop runs with the header phase inactive: it neither consults the
\* HeaderCache nor stores into it, on the path through the release, Init and
\* header replay of a backward seek as on the others.
C14_DataPullsOutsideHeaderPhase ==
    (phase = "ready" /\ HasEntry /\ vol.current_archive_entry_ = "entry")
    => /\ \A o \in 0..MaxOffset, len \in 1..MaxLen :
            \A e \in ReadEnvs(o) :
              \A p \in ReadData(Pack(e), o, len).g.pulls :
                  p.site = "data" => (~p.consulted /\ ~p.stored)
       /\ \A e \in Envs(DataFaults) :
            \A p \in MaybeDecompressAhead(Pack(e)).g.pulls :
                p.site = "data" => (~p.consulted /\ ~p.stored)

\* C15: every pull-read that runs with the header phase active is made with
\* the read-size hint at kHeaderChunkSize: the pulls of a GetNextHeader the
\* owner calls, and those of a ReadAt, the Init of a backward seek after
\* data reads included.
C15_HeaderPhasePullsUseHeaderChunk ==
    phase = "ready"
    => /\ \A e \in Envs(HeaderFaults) :
            \A p \in GetNextHeader(Pack(e)).g.pulls :
                p.consulted => p.hint = kHeaderChunkSize
       /\ (HasEntry /\ vol.current_archive_entry_ = "entry")
          => \A o \in 0..MaxOffset, len \in 1..MaxLen :
               \A e \in ReadEnvs(o) :
                 \A p \in ReadData(Pack(e), o, len).g.pulls :
                     p.consulted => p.hint = kHeaderChunkSize

\* The skip loop of the call that did s got 0 bytes from archive_read_data
\* with the cursor still short of the offset asked for.
SkipPulledZero(s) == s.g.halt = "dcheck"

\* C16: a ReadAt whose skip loop gets 0 bytes from the codec while the gap to
\* the requested offset is positive leaves the loop, sets the error flag and
\* returns kArchiveReadDataError.
C16_ZeroSkipPullIsFatal ==
    (phase = "ready" /\ HasEntry /\ vol.current_archive_entry_ = "entry")
    => \A o \in 0..MaxOffset, len \in 1..MaxLen :
         \A e \in ReadEnvs(o) :
           LET s == ReadData(Pack(e), o, len)
           IN  SkipPulledZero(s)
               => \A how \in Outcomes(s) :
                    /\ how = "no"
                    /\ s.v.decompressed_error_
                    /\ s.g.rv = kArchiveReadDataError

\* The first entry of the archive with this pathname.
FirstMatch(path) ==
    CHOOSE i \in 1..EntryCount :
        /\ archive[i].path = path
        /\ \A j \in 1..(i - 1) : archive[j].path # path

\* C17: in a ReadAt before the cursor whose codec release succeeded, the
\* header replay makes no GetNextHeader past the first entry with the
\* pathname of the entry that was current, and either stops there, with the
\* codec on that entry and the cursor reset to 0 before any byte is skipped
\* or served, or ends with the error flag set and kArchiveReadDataError
\* returned without a call of archive_read_data; it ends so when Init fails,
\* when a header call up to the match fails (a pull-read, the cache skip or
\* the codec itself) and when the archive ends before the match, and stops at
\* the match when nothing fails.
C17_ReplayStopsAtFirstMatchOrFails ==
    [](
      (phase = "ready" /\ HasEntry /\ vol.current_archive_entry_ = "entry")
      => \A o \in 0..MaxOffset, len \in 1..MaxLen :
           (o < EntrySize(Now) /\ o < vol.last_read_data_offset_)
           => \A e \in ReadEnvs(o) :
                LET s == ReadData(Pack(e), o, len)
                    m == FirstMatch(EntryPath(Now))
                    stopped_at_match ==
                        /\ s.g.inits = 1 /\ s.g.hdrCalls = m /\ s.c.ent = m
                        /\ Resets(s) = 1..m
                        /\ \A i \in 1..Len(s.g.moves) :
                               s.g.moves[i].by = "skip" => s.g.moves[i].to <= o
                    failed_early ==
                        /\ s.v.decompressed_error_
                        /\ s.g.rv = kArchiveReadDataError
                        /\ s.g.dataCalls = 0 /\ ~s.g.decoded
                        /\ s.g.data = << >>
                IN  s.g.seeks = 1
                    => /\ ~Stopped(s)
                       /\ s.g.hdrCalls <= m
                       /\ stopped_at_match \/ failed_early
                       /\ e.site \in {"new", "support", "open"} => failed_early
                       /\ (e.site = "hdr" /\ e.kind # "skip_zero" /\ e.nth <= m)
                          => failed_early
                       /\ e \in NoFault => stopped_at_match
                       /\ (e \in NoFault /\ ~hist.failed)
                          => /\ s.g.decoded
                             /\ s.v.last_read_data_offset_ = o + s.g.rv
    )

\* A ReadAt before the cursor replayed the headers up to the second entry
\* and returned bytes.
C17_Witness ==
    /\ last.op = "ReadData" /\ last.returned /\ last.frees = 1
    /\ ~hist.failed /\ hist.rewound
    /\ codec.ent = 2 /\ last.ret > 0
    /\ vol.last_read_data_offset_ = last.offset + last.ret

\* The call that did s made no call of the codec: no header call, no
\* archive_read_data, no release, no Init, and so no pull-read.
NoCodecCall(s) ==
    /\ s.g.hdrCalls = 0 /\ s.g.dataCalls = 0
    /\ s.g.frees = 0 /\ s.g.inits = 0
    /\ s.g.pulls = {}
    /\ s.c = codec

\* C18: with the error flag set, no ReadAt and no MaybeDecompressAhead calls
\* the codec: none decodes, releases the codec or runs Init.
C18_NoCodecCallAfterError ==
    (/\ phase = "ready" /\ HasEntry /\ vol.current_archive_entry_ = "entry"
     /\ vol.decompressed_error_)
    => /\ \A o \in 0..MaxOffset, len \in 1..MaxLen :
            \A e \in ReadEnvs(o) : NoCodecCall(ReadData(Pack(e), o, len))
       /\ \A e \in Envs(DataFaults) :
            NoCodecCall(MaybeDecompressAhead(Pack(e)))

\* C19: between the owner's calls, with the error flag clear and an entry
\* selected (and no call having failed so far), the codec's position in the
\* entry is the cursor plus the window's length.
C19_CodecAtCursorPlusWindow ==
    (/\ phase = "ready" /\ HasEntry /\ vol.current_archive_entry_ = "entry"
     /\ ~vol.decompressed_error_ /\ ~hist.failed)
    => codec.pos = vol.last_read_data_offset_ + vol.decompressed_data_size_

\* The call that did s handed a released codec to a codec call, released one
\* codec twice included.
UsedReleased(s) == s.g.uar

\* C20: no call of the owner's hands a released codec to archive_read_free
\* again or to any other codec call: not Cleanup or the destructor, whatever
\* came before (an earlier Cleanup, a ReadAt whose release of the codec
\* failed), and not ReadAt or MaybeDecompressAhead.
C20_NoCodecCallOnReleased ==
    /\ phase \in {"constructed", "ready", "initfail", "cleaned"}
       => \A e \in Envs(FreeFaults) : ~UsedReleased(Cleanup(Pack(e)))
    /\ (phase = "ready" /\ HasEntry)
       => /\ \A o \in 0..MaxOffset, len \in 1..MaxLen :
               \A e \in ReadEnvs(o) :
                   ~UsedReleased(ReadData(Pack(e), o, len))
          /\ \A e \in Envs(DataFaults) :
               ~UsedReleased(MaybeDecompressAhead(Pack(e)))

Next ==
    \/ DoInit
    \/ ListNextEntry
    \/ ReadAt
    \/ DecompressAhead
    \/ DoCleanup
    \/ Destroy

Spec == Init /\ [][Next]_vars

====
